---- MODULE Spec2Model ----
(***************************************************************************)
(* Reservation store of the classroom reservation manager                  *)
(* (src/reservation_db.py) and the request handlers of src/main.py that    *)
(* call it.                                                                *)
(*                                                                         *)
(* A Python str is a sequence of one-character strings; comparisons of     *)
(* strings go through the characters' code points, parsing goes through    *)
(* the characters' digit values.                                           *)
(***************************************************************************)
EXTENDS Integers, Sequences, FiniteSets, TLC

(***************************************************************************)
(* Bound of the model: create_reservation is not called once _next_id has  *)
(* passed MaxId.                                                           *)
(***************************************************************************)
MaxId == 3

\* ------------------------------------------------------------------------
\* Characters and strings
\* ------------------------------------------------------------------------

Digits == {"0", "1", "2", "3", "4", "5", "6", "7", "8", "9"}

\* the digit's value, as int() reads it
DigitVal ==
  [c \in Digits |->
     CASE c = "0" -> 0 [] c = "1" -> 1 [] c = "2" -> 2 [] c = "3" -> 3
       [] c = "4" -> 4 [] c = "5" -> 5 [] c = "6" -> 6 [] c = "7" -> 7
       [] c = "8" -> 8 [] c = "9" -> 9]

\* the character's Unicode code point: Python orders str by code point
CodePoint(c) ==
  CASE c = "-" -> 45
    [] c \in Digits -> 48 + DigitVal[c]
    [] c = ":" -> 58
    [] c = "h" -> 104

\* Python's < on sequences (str, tuple): the first differing element
\* decides, a proper prefix is smaller.  a and b are sequences of integers.
RECURSIVE LexLess(_, _)
LexLess(a, b) ==
  IF b = <<>> THEN FALSE
  ELSE IF a = <<>> THEN TRUE
  ELSE IF Head(a) # Head(b) THEN Head(a) < Head(b)
  ELSE LexLess(Tail(a), Tail(b))

CodePoints(s) == [i \in 1..Len(s) |-> CodePoint(s[i])]

\* s1 < s2 for two str
StrLess(s1, s2) == LexLess(CodePoints(s1), CodePoints(s2))

\* str.split(sep) for a one-character sep: the parts between the separators
RECURSIVE Split(_, _)
Split(s, sep) ==
  IF \A i \in 1..Len(s) : s[i] # sep THEN <<s>>
  ELSE LET p == CHOOSE i \in 1..Len(s) :
                   s[i] = sep /\ \A j \in 1..(i - 1) : s[j] # sep
       IN  <<SubSeq(s, 1, p - 1)>> \o Split(SubSeq(s, p + 1, Len(s)), sep)

IsDigits(s) == Len(s) > 0 /\ \A i \in 1..Len(s) : s[i] \in Digits

RECURSIVE DigitsVal(_)
DigitsVal(s) ==
  IF s = <<>> THEN 0
  ELSE 10 * DigitsVal(SubSeq(s, 1, Len(s) - 1)) + DigitVal[s[Len(s)]]

\* int(s): an optional minus sign and at least one digit, else ValueError
IsInt(s) == IsDigits(s) \/ (Len(s) > 1 /\ s[1] = "-" /\ IsDigits(Tail(s)))

IntOf(s) == IF s[1] = "-" THEN 0 - DigitsVal(Tail(s)) ELSE DigitsVal(s)

\* str(n) for n >= 0
RECURSIVE StrOf(_)
StrOf(n) ==
  LET d == CHOOSE c \in Digits : DigitVal[c] = n % 10
  IN  IF n < 10 THEN <<d>> ELSE StrOf(n \div 10) \o <<d>>

\* ------------------------------------------------------------------------
\* Time/slot validator and overlap checker (pure functions)
\* ------------------------------------------------------------------------

NoTime == [ok |-> FALSE, hour |-> 0, minute |-> 0]

\* datetime.time(hour, minute) raises ValueError outside 0..23 / 0..59
TimeInRange(hour, minute) ==
  hour >= 0 /\ hour <= 23 /\ minute >= 0 /\ minute <= 59

\* _parse_time: hour, minute = map(int, time_str.split(":")); time(hour, minute).
\* ok = FALSE stands for the ValueError the function raises.
_parse_time(time_str) ==
  LET parts == Split(time_str, ":")
  IN  IF Len(parts) # 2 \/ ~IsInt(parts[1]) \/ ~IsInt(parts[2]) THEN NoTime
      ELSE IF ~TimeInRange(IntOf(parts[1]), IntOf(parts[2])) THEN NoTime
      ELSE [ok |-> TRUE, hour |-> IntOf(parts[1]), minute |-> IntOf(parts[2])]

NoDate == [ok |-> FALSE, year |-> 0, month |-> 0, day |-> 0]

IsLeap(y) == y % 4 = 0 /\ (y % 100 # 0 \/ y % 400 = 0)

DaysInMonth(y, m) ==
  IF m = 2 THEN (IF IsLeap(y) THEN 29 ELSE 28)
  ELSE IF m \in {4, 6, 9, 11} THEN 30 ELSE 31

\* _parse_date: datetime.strptime(date_str, "%Y-%m-%d").date().  %Y is four
\* digits, %m and %d are one or two digits (zero padding optional), the
\* whole string must be consumed and the day must exist in the calendar.
_parse_date(date_str) ==
  LET parts == Split(date_str, "-")
  IN  IF Len(parts) # 3 THEN NoDate
      ELSE IF ~(IsDigits(parts[1]) /\ Len(parts[1]) = 4) THEN NoDate
      ELSE IF ~(IsDigits(parts[2]) /\ Len(parts[2]) <= 2) THEN NoDate
      ELSE IF ~(IsDigits(parts[3]) /\ Len(parts[3]) <= 2) THEN NoDate
      ELSE LET y == DigitsVal(parts[1])
               m == DigitsVal(parts[2])
               d == DigitsVal(parts[3])
           IN  IF y < 1 \/ m < 1 \/ m > 12 \/ d < 1 \/ d > DaysInMonth(y, m)
               THEN NoDate
               ELSE [ok |-> TRUE, year |-> y, month |-> m, day |-> d]

\* _is_past_datetime: datetime.combine(date, start) < now, where now is the
\* wall clock [year, month, day, hour, minute, second]
_is_past_datetime(reservation_date, start_time, now) ==
  LexLess(<<reservation_date.year, reservation_date.month, reservation_date.day,
            start_time.hour, start_time.minute, 0>>,
          <<now.year, now.month, now.day, now.hour, now.minute, now.second>>)

\* the hour successor without the wrap at midnight
_is_valid_time_slot_no_wrap(start_time, end_time) ==
  IF start_time.minute # 0 \/ end_time.minute # 0 THEN FALSE
  ELSE end_time.hour = start_time.hour + 1

\* _is_valid_time_slot: both on the hour, end hour = (start hour + 1) % 24
_is_valid_time_slot(start_time, end_time) ==
  IF start_time.minute # 0 \/ end_time.minute # 0 THEN FALSE
  ELSE end_time.hour = (start_time.hour + 1) % 24

time_to_minutes(t) == t.hour * 60 + t.minute

\* closed intervals: touching counts as overlap
_is_time_overlap_closed(start1, end1, start2, end2) ==
  time_to_minutes(start1) <= time_to_minutes(end2)
    /\ time_to_minutes(start2) <= time_to_minutes(end1)

\* _is_time_overlap: start1 < end2 and start2 < end1, in minutes of the day
_is_time_overlap(start1, end1, start2, end2) ==
  time_to_minutes(start1) < time_to_minutes(end2)
    /\ time_to_minutes(start2) < time_to_minutes(end1)

\* ------------------------------------------------------------------------
\* Inputs of the model
\* ------------------------------------------------------------------------

Users == {"u1", "u2"}

Classrooms == {1, 2}

\* "2099-01-01", the same day written "2099-1-1", and "2099-13-01"
DatePadded == <<"2", "0", "9", "9", "-", "0", "1", "-", "0", "1">>
DateUnpadded == <<"2", "0", "9", "9", "-", "1", "-", "1">>
DateBadMonth == <<"2", "0", "9", "9", "-", "1", "3", "-", "0", "1">>

T_9_00 == <<"9", ":", "0", "0">>
T_09_00 == <<"0", "9", ":", "0", "0">>
T_09_30 == <<"0", "9", ":", "3", "0">>
T_10_00 == <<"1", "0", ":", "0", "0">>
T_10_30 == <<"1", "0", ":", "3", "0">>
T_11_00 == <<"1", "1", ":", "0", "0">>
T_23_00 == <<"2", "3", ":", "0", "0">>
T_00_00 == <<"0", "0", ":", "0", "0">>
T_9h == <<"9", "h">>
T_25_00 == <<"2", "5", ":", "0", "0">>

\* the create_reservation calls of the model, as
\* <<user_id, classroom_id, date, start_time, end_time>>:
\*   a one-hour slot, the same slot written HH:MM by another user, the
\*   slot after it, the slot that wraps past midnight (by either user), the
\*   first slot in another classroom and under the unpadded date string;
\*   then intervals of the wrong shape and strings that do not parse
Requests ==
  { <<"u1", 1, DatePadded, T_9_00, T_10_00>>,
    <<"u2", 1, DatePadded, T_09_00, T_10_00>>,
    <<"u1", 1, DatePadded, T_10_00, T_11_00>>,
    <<"u2", 1, DatePadded, T_23_00, T_00_00>>,
    <<"u1", 1, DatePadded, T_23_00, T_00_00>>,
    <<"u2", 2, DatePadded, T_9_00, T_10_00>>,
    <<"u2", 1, DateUnpadded, T_9_00, T_10_00>>,
    <<"u1", 1, DatePadded, T_09_30, T_10_30>>,
    <<"u1", 1, DatePadded, T_09_00, T_11_00>>,
    <<"u1", 1, DateBadMonth, T_9_00, T_10_00>>,
    <<"u1", 1, DatePadded, T_9h, T_10_00>>,
    <<"u1", 1, DatePadded, T_10_00, T_25_00>> }

\* the wall clock readings, in order: before every date above, and half a
\* minute into the 09:00 slot of 2099-01-01
Instant0 ==
  [year |-> 2026, month |-> 11, day |-> 6, hour |-> 10, minute |-> 0, second |-> 0]
Instant1 ==
  [year |-> 2099, month |-> 1, day |-> 1, hour |-> 9, minute |-> 0, second |-> 30]

Instants == {Instant0, Instant1}

InstantLess(a, b) ==
  LexLess(<<a.year, a.month, a.day, a.hour, a.minute, a.second>>,
          <<b.year, b.month, b.day, b.hour, b.minute, b.second>>)

\* the ids a caller may name: those the model can assign and one more
Ids == 1..(MaxId + 1)

\* ------------------------------------------------------------------------
\* State
\* ------------------------------------------------------------------------

VARIABLES
  RESERVATIONS,  \* reservation id -> record, the module's dict
  next_id,       \* the module's _next_id
  file,          \* reservations.json: absent, or the document last written
  now,           \* the wall clock datetime.now() reads
  last,          \* the last completed call: its arguments and what it returned
  issued,        \* the ids successful creates were given, in order
  CLASSROOMS,    \* the ids of the classroom catalog (classroom_db.CLASSROOMS)
  classroom_next_id,  \* classroom_db._next_id
  threads,       \* per calling thread: where it stands inside create_reservation
  overlapped     \* some create_reservation began while another thread was inside one

vars == <<RESERVATIONS, next_id, file, now, last, issued, CLASSROOMS, classroom_next_id,
          threads, overlapped>>

\* the state of the classroom catalog, which the reservation store never touches
catalogVars == <<CLASSROOMS, classroom_next_id>>

\* the threads that call into the store; one thread unless stated otherwise
Threads == {1, 2}

\* a thread outside create_reservation
Idle == [pc |-> "idle", args |-> <<>>, rid |-> 0, counter |-> 0]

NoRows == <<>>
NoStr == <<>>

Outcome(ok, msg, raw) == [ok |-> ok, msg |-> msg, raw |-> raw]

\* saved: the call reached _save_reservations
Call(op, args, out, rid, rows, saved) ==
  [op |-> op, args |-> args, ok |-> out.ok, msg |-> out.msg, raw |-> out.raw,
   rid |-> rid, rows |-> rows, saved |-> saved]

\* ------------------------------------------------------------------------
\* Persistence
\* ------------------------------------------------------------------------

\* json: the content of the file parses as JSON
FileAbsent == [exists |-> FALSE, json |-> FALSE, reservations |-> {}, next_id |-> 0]

\* _save_reservations: the document {"reservations": {str(k): v}, "next_id": n};
\* a JSON object is the set of its <<key, value>> members
_save_reservations(store, n) ==
  [exists |-> TRUE, json |-> TRUE,
   reservations |-> {<<StrOf(k), store[k]>> : k \in DOMAIN store},
   next_id |-> n]

\* the counter recomputed from the number of records instead of read
_load_reservations_recount(f) ==
  IF ~f.exists \/ ~f.json THEN [reservations |-> <<>>, next_id |-> 1]
  ELSE [reservations |->
          [k \in {IntOf(m[1]) : m \in f.reservations} |->
             (CHOOSE m \in f.reservations : IntOf(m[1]) = k)[2]],
        next_id |-> Cardinality(f.reservations) + 1]

\* the records loaded and the counter started at 1 again
_load_reservations_counter_reset(f) ==
  IF ~f.exists \/ ~f.json THEN [reservations |-> <<>>, next_id |-> 1]
  ELSE IF \E m \in f.reservations : ~IsInt(m[1])
       THEN [reservations |-> <<>>, next_id |-> 1]
  ELSE [reservations |->
          [k \in {IntOf(m[1]) : m \in f.reservations} |->
             (CHOOSE m \in f.reservations : IntOf(m[1]) = k)[2]],
        next_id |-> 1]

\* _load_reservations: ({int(k): v}, next_id) of the document; ({}, 1) when
\* the file is missing, is no JSON or a key is no integer
_load_reservations(f) ==
  IF ~f.exists \/ ~f.json THEN [reservations |-> <<>>, next_id |-> 1]
  ELSE IF \E m \in f.reservations : ~IsInt(m[1])
       THEN [reservations |-> <<>>, next_id |-> 1]
  ELSE [reservations |->
          [k \in {IntOf(m[1]) : m \in f.reservations} |->
             (CHOOSE m \in f.reservations : IntOf(m[1]) = k)[2]],
        next_id |-> f.next_id]

\* ------------------------------------------------------------------------
\* create_reservation
\* ------------------------------------------------------------------------

\* the scan comparing calendar days instead of date strings
HasConflict_by_calendar_day(store, classroom_id, reservation_date, start_time, end_time) ==
  \E k \in DOMAIN store :
    /\ store[k].classroom_id = classroom_id
    /\ _parse_date(store[k].date) = _parse_date(reservation_date)
    /\ _is_time_overlap(start_time, end_time,
                        _parse_time(store[k].start_time),
                        _parse_time(store[k].end_time))

\* step 4: some reservation of the same classroom and the same date string
\* overlaps the candidate interval
HasConflict(store, classroom_id, reservation_date, start_time, end_time) ==
  \E k \in DOMAIN store :
    /\ store[k].classroom_id = classroom_id
    /\ store[k].date = reservation_date
    /\ _is_time_overlap(start_time, end_time,
                        _parse_time(store[k].start_time),
                        _parse_time(store[k].end_time))

\* the slot shape not checked at all
create_checks_no_shape(store, clock, classroom_id, reservation_date, start_time_str, end_time_str) ==
  LET d == _parse_date(reservation_date)
      s == _parse_time(start_time_str)
      e == _parse_time(end_time_str)
  IN  IF ~d.ok THEN Outcome(FALSE, "InvalidDateFormat", reservation_date)
      ELSE IF ~s.ok THEN Outcome(FALSE, "InvalidTimeFormat", start_time_str)
      ELSE IF ~e.ok THEN Outcome(FALSE, "InvalidTimeFormat", end_time_str)
      ELSE IF _is_past_datetime(d, s, clock) THEN Outcome(FALSE, "PastTime", NoStr)
      ELSE IF HasConflict(store, classroom_id, reservation_date, s, e)
           THEN Outcome(FALSE, "SlotConflict", NoStr)
      ELSE Outcome(TRUE, "Created", NoStr)

\* the slot shape checked before the past-time check
create_checks_shape_first(store, clock, classroom_id, reservation_date, start_time_str, end_time_str) ==
  LET d == _parse_date(reservation_date)
      s == _parse_time(start_time_str)
      e == _parse_time(end_time_str)
  IN  IF ~d.ok THEN Outcome(FALSE, "InvalidDateFormat", reservation_date)
      ELSE IF ~s.ok THEN Outcome(FALSE, "InvalidTimeFormat", start_time_str)
      ELSE IF ~e.ok THEN Outcome(FALSE, "InvalidTimeFormat", end_time_str)
      ELSE IF ~_is_valid_time_slot(s, e) THEN Outcome(FALSE, "InvalidSlotShape", NoStr)
      ELSE IF _is_past_datetime(d, s, clock) THEN Outcome(FALSE, "PastTime", NoStr)
      ELSE IF HasConflict(store, classroom_id, reservation_date, s, e)
           THEN Outcome(FALSE, "SlotConflict", NoStr)
      ELSE Outcome(TRUE, "Created", NoStr)

\* steps 1-4 of create_reservation: the first check that fails decides
create_checks(store, clock, classroom_id, reservation_date, start_time_str, end_time_str) ==
  LET d == _parse_date(reservation_date)
      s == _parse_time(start_time_str)
      e == _parse_time(end_time_str)
  IN  IF ~d.ok THEN Outcome(FALSE, "InvalidDateFormat", reservation_date)
      ELSE IF ~s.ok THEN Outcome(FALSE, "InvalidTimeFormat", start_time_str)
      ELSE IF ~e.ok THEN Outcome(FALSE, "InvalidTimeFormat", end_time_str)
      ELSE IF _is_past_datetime(d, s, clock) THEN Outcome(FALSE, "PastTime", NoStr)
      ELSE IF ~_is_valid_time_slot(s, e) THEN Outcome(FALSE, "InvalidSlotShape", NoStr)
      ELSE IF HasConflict(store, classroom_id, reservation_date, s, e)
           THEN Outcome(FALSE, "SlotConflict", NoStr)
      ELSE Outcome(TRUE, "Created", NoStr)

\* the counter incremented before it is read
take_id_preincrement(n) == [reservation_id |-> n + 1, next_id |-> n + 1]

\* the counter left where it was: the next create gets the same id again
take_id_no_increment(n) == [reservation_id |-> n, next_id |-> n]

\* step 5: reservation_id = _next_id; _next_id += 1
take_id(n) == [reservation_id |-> n, next_id |-> n + 1]

\* RESERVATIONS[reservation_id] = {...}
Insert(store, reservation_id, user_id, classroom_id, reservation_date, start_time_str, end_time_str) ==
  [k \in DOMAIN store \cup {reservation_id} |->
     IF k = reservation_id
     THEN [user_id |-> user_id, classroom_id |-> classroom_id,
           date |-> reservation_date, start_time |-> start_time_str,
           end_time |-> end_time_str]
     ELSE store[k]]

\* the id taken before the checks: a rejected call has used it up
create_reservation_id_first(user_id, classroom_id, reservation_date, start_time_str, end_time_str) ==
  LET out == create_checks(RESERVATIONS, now, classroom_id, reservation_date,
                           start_time_str, end_time_str)
      t == take_id(next_id)
      args == <<user_id, classroom_id, reservation_date, start_time_str, end_time_str>>
  IN  /\ next_id <= MaxId
      /\ next_id' = t.next_id
      /\ IF out.ok
         THEN /\ RESERVATIONS' = Insert(RESERVATIONS, t.reservation_id, user_id,
                                        classroom_id, reservation_date,
                                        start_time_str, end_time_str)
              /\ file' = _save_reservations(RESERVATIONS', next_id')
              /\ issued' = Append(issued, t.reservation_id)
              /\ last' = Call("create", args, out, t.reservation_id, NoRows, TRUE)
         ELSE /\ UNCHANGED <<RESERVATIONS, file, issued>>
              /\ last' = Call("create", args, out, 0, NoRows, FALSE)
      /\ UNCHANGED now
      /\ UNCHANGED <<catalogVars, threads, overlapped>>

\* create_reservation: the checks, then the id, the insert and the save
create_reservation(user_id, classroom_id, reservation_date, start_time_str, end_time_str) ==
  LET out == create_checks(RESERVATIONS, now, classroom_id, reservation_date,
                           start_time_str, end_time_str)
      t == take_id(next_id)
      args == <<user_id, classroom_id, reservation_date, start_time_str, end_time_str>>
  IN  /\ next_id <= MaxId
      /\ IF out.ok
         THEN /\ RESERVATIONS' = Insert(RESERVATIONS, t.reservation_id, user_id,
                                        classroom_id, reservation_date,
                                        start_time_str, end_time_str)
              /\ next_id' = t.next_id
              /\ file' = _save_reservations(RESERVATIONS', next_id')
              /\ issued' = Append(issued, t.reservation_id)
              /\ last' = Call("create", args, out, t.reservation_id, NoRows, TRUE)
         ELSE /\ UNCHANGED <<RESERVATIONS, next_id, file, issued>>
              /\ last' = Call("create", args, out, 0, NoRows, FALSE)
      /\ UNCHANGED now
      /\ UNCHANGED <<catalogVars, threads, overlapped>>

\* ------------------------------------------------------------------------
\* cancel_reservation, delete_reservation, get_reservation
\* ------------------------------------------------------------------------

\* del RESERVATIONS[reservation_id]
Remove(store, reservation_id) ==
  [k \in DOMAIN store \ {reservation_id} |-> store[k]]

\* the owner compared first, through a lookup that tolerates a missing id
cancel_checks_owner_first(store, reservation_id, user_id) ==
  IF reservation_id \notin DOMAIN store \/ store[reservation_id].user_id # user_id
  THEN Outcome(FALSE, "NotOwner", NoStr)
  ELSE Outcome(TRUE, "Cancelled", NoStr)

\* the owner not compared at all
cancel_checks_no_owner(store, reservation_id, user_id) ==
  IF reservation_id \notin DOMAIN store THEN Outcome(FALSE, "NotFound", NoStr)
  ELSE Outcome(TRUE, "Cancelled", NoStr)

\* the two checks of cancel_reservation, in the code's order
cancel_checks(store, reservation_id, user_id) ==
  IF reservation_id \notin DOMAIN store THEN Outcome(FALSE, "NotFound", NoStr)
  ELSE IF store[reservation_id].user_id # user_id THEN Outcome(FALSE, "NotOwner", NoStr)
  ELSE Outcome(TRUE, "Cancelled", NoStr)

cancel_reservation(reservation_id, user_id) ==
  LET out == cancel_checks(RESERVATIONS, reservation_id, user_id)
  IN  /\ IF out.ok
         THEN /\ RESERVATIONS' = Remove(RESERVATIONS, reservation_id)
              /\ file' = _save_reservations(RESERVATIONS', next_id)
         ELSE UNCHANGED <<RESERVATIONS, file>>
      /\ last' = Call("cancel", <<reservation_id, user_id>>, out, reservation_id,
                      NoRows, out.ok)
      /\ UNCHANGED <<next_id, now, issued>>
      /\ UNCHANGED <<catalogVars, threads, overlapped>>

\* the record deleted from the dict and the file left as it was
delete_reservation_no_save(reservation_id) ==
  /\ IF reservation_id \in DOMAIN RESERVATIONS
     THEN /\ RESERVATIONS' = Remove(RESERVATIONS, reservation_id)
          /\ last' = Call("delete", <<reservation_id>>, Outcome(TRUE, "Deleted", NoStr),
                          reservation_id, NoRows, FALSE)
     ELSE /\ UNCHANGED RESERVATIONS
          /\ last' = Call("delete", <<reservation_id>>, Outcome(FALSE, "Absent", NoStr),
                          reservation_id, NoRows, FALSE)
  /\ UNCHANGED <<next_id, file, now, issued>>
  /\ UNCHANGED <<catalogVars, threads, overlapped>>

\* a delete that looks at the owner: only records of u1 are removed
delete_reservation_owner_checked(reservation_id) ==
  /\ IF reservation_id \in DOMAIN RESERVATIONS
          /\ RESERVATIONS[reservation_id].user_id = "u1"
     THEN /\ RESERVATIONS' = Remove(RESERVATIONS, reservation_id)
          /\ file' = _save_reservations(RESERVATIONS', next_id)
          /\ last' = Call("delete", <<reservation_id>>, Outcome(TRUE, "Deleted", NoStr),
                          reservation_id, NoRows, TRUE)
     ELSE /\ UNCHANGED <<RESERVATIONS, file>>
          /\ last' = Call("delete", <<reservation_id>>, Outcome(FALSE, "Absent", NoStr),
                          reservation_id, NoRows, FALSE)
  /\ UNCHANGED <<next_id, now, issued>>
  /\ UNCHANGED <<catalogVars, threads, overlapped>>

\* delete_reservation: membership test, del, save; no look at the owner
delete_reservation(reservation_id) ==
  /\ IF reservation_id \in DOMAIN RESERVATIONS
     THEN /\ RESERVATIONS' = Remove(RESERVATIONS, reservation_id)
          /\ file' = _save_reservations(RESERVATIONS', next_id)
          /\ last' = Call("delete", <<reservation_id>>, Outcome(TRUE, "Deleted", NoStr),
                          reservation_id, NoRows, TRUE)
     ELSE /\ UNCHANGED <<RESERVATIONS, file>>
          /\ last' = Call("delete", <<reservation_id>>, Outcome(FALSE, "Absent", NoStr),
                          reservation_id, NoRows, FALSE)
  /\ UNCHANGED <<next_id, now, issued>>
  /\ UNCHANGED <<catalogVars, threads, overlapped>>

\* get_reservation: RESERVATIONS.get(reservation_id), None as found = FALSE
get_reservation(store, reservation_id) ==
  IF reservation_id \in DOMAIN store
  THEN [found |-> TRUE, record |-> store[reservation_id]]
  ELSE [found |-> FALSE, record |-> <<>>]

\* ------------------------------------------------------------------------
\* Queries
\* ------------------------------------------------------------------------

\* the dict's iteration order is its insertion order: ids are inserted in
\* increasing order and the file keeps the order it was written in
RECURSIVE Ascending(_)
Ascending(S) ==
  IF S = {} THEN <<>>
  ELSE LET m == CHOOSE x \in S : \A y \in S : x <= y
       IN  <<m>> \o Ascending(S \ {m})

ItemsOrder(store) == Ascending(DOMAIN store)

\* the stored dict itself returned as the row
RowOf_stored_dict(store, res_id) == [ref |-> res_id, fields |-> store[res_id]]

\* {**reservation, "id": res_id}: a new dict with the record's fields and the
\* id.  ref names the dict of RESERVATIONS the row is (0: none, the row is
\* a dict of its own).
RowOf(store, res_id) ==
  [ref |-> 0,
   fields |-> [user_id |-> store[res_id].user_id,
               classroom_id |-> store[res_id].classroom_id,
               date |-> store[res_id].date,
               start_time |-> store[res_id].start_time,
               end_time |-> store[res_id].end_time,
               id |-> res_id]]

AllRows(store) ==
  LET ids == ItemsOrder(store)
  IN  [i \in 1..Len(ids) |-> RowOf(store, ids[i])]

get_user_reservations(store, user_id) ==
  SelectSeq(AllRows(store), LAMBDA r : r.fields.user_id = user_id)

\* the sort key (r["date"], r["start_time"]): a tuple of two str, compared
\* element by element
KeyLess(f1, f2) ==
  \/ StrLess(f1.date, f2.date)
  \/ f1.date = f2.date /\ StrLess(f1.start_time, f2.start_time)

\* list.sort is stable: a row goes before the first row it must precede
\* (reverse = TRUE: descending keys, rows of equal keys keep their order)
Precedes(r1, r2, reverse) ==
  IF reverse THEN KeyLess(r2.fields, r1.fields) ELSE KeyLess(r1.fields, r2.fields)

InsertRow(sorted, r, reverse) ==
  IF \A i \in 1..Len(sorted) : ~Precedes(r, sorted[i], reverse)
  THEN Append(sorted, r)
  ELSE LET p == CHOOSE i \in 1..Len(sorted) :
                   /\ Precedes(r, sorted[i], reverse)
                   /\ \A j \in 1..(i - 1) : ~Precedes(r, sorted[j], reverse)
       IN  SubSeq(sorted, 1, p - 1) \o <<r>> \o SubSeq(sorted, p, Len(sorted))

RECURSIVE SortRows(_, _)
SortRows(rows, reverse) ==
  IF rows = <<>> THEN <<>>
  ELSE InsertRow(SortRows(SubSeq(rows, 1, Len(rows) - 1), reverse),
                 rows[Len(rows)], reverse)

\* the optional date argument: None, or a str
NoDateArg == [given |-> FALSE, date |-> NoStr]
DateArg(d) == [given |-> TRUE, date |-> d]

\* `if date:` is false for None and for the empty string
get_classroom_reservations(store, classroom_id, date) ==
  LET ofRoom == SelectSeq(AllRows(store),
                          LAMBDA r : r.fields.classroom_id = classroom_id)
      onDate == IF date.given /\ date.date # NoStr
                THEN SelectSeq(ofRoom, LAMBDA r : r.fields.date = date.date)
                ELSE ofRoom
  IN  SortRows(onDate, FALSE)


\* ------------------------------------------------------------------------
\* Request handlers and queries as steps
\* ------------------------------------------------------------------------

\* get_classroom of the classroom catalog.  The catalog is the collaborator's
\* state; it is empty after construction, so the lookup finds nothing and
\* the handler falls back to the name it builds from the id and to "".
ClassroomName(classroom_id) == <<"classroom", StrOf(classroom_id)>>

\* reservation["classroom_name"] = ...; reservation["classroom_location"] = ...
Annotate(row) ==
  [ref |-> row.ref,
   fields |-> [classroom_name |-> ClassroomName(row.fields.classroom_id),
               classroom_location |-> NoStr] @@ row.fields]

\* an assignment to a key of a row changes the dict the row is: a dict of
\* RESERVATIONS when the row refers to one
WriteThrough(store, rows) ==
  [k \in DOMAIN store |->
     IF \E i \in 1..Len(rows) : rows[i].ref = k
     THEN rows[CHOOSE i \in 1..Len(rows) : rows[i].ref = k].fields
     ELSE store[k]]

\* GET /reservations: the user's rows, annotated, newest first
list_my_reservations(user_id) ==
  LET rows == get_user_reservations(RESERVATIONS, user_id)
      annotated == [i \in 1..Len(rows) |-> Annotate(rows[i])]
  IN  /\ RESERVATIONS' = WriteThrough(RESERVATIONS, annotated)
      /\ last' = Call("list_my", <<user_id>>, Outcome(TRUE, "Listed", NoStr), 0,
                      SortRows(annotated, TRUE), FALSE)
      /\ UNCHANGED <<next_id, file, now, issued>>
      /\ UNCHANGED <<catalogVars, threads, overlapped>>

\* a call of get_classroom_reservations(classroom_id, date)
list_classroom_reservations(classroom_id, date) ==
  /\ last' = Call("list_classroom", <<classroom_id, date>>,
                  Outcome(TRUE, "Listed", NoStr), 0,
                  get_classroom_reservations(RESERVATIONS, classroom_id, date), FALSE)
  /\ UNCHANGED <<RESERVATIONS, next_id, file, now, issued>>
  /\ UNCHANGED <<catalogVars, threads, overlapped>>

\* ------------------------------------------------------------------------
\* Environment: the clock, and a restart of the process
\* ------------------------------------------------------------------------

\* time passes between two calls
Tick ==
  /\ \E t \in Instants : InstantLess(now, t) /\ now' = t
  /\ last' = Call("tick", <<>>, Outcome(TRUE, "Tick", NoStr), 0, NoRows, FALSE)
  /\ UNCHANGED <<RESERVATIONS, next_id, file, issued>>
  /\ UNCHANGED <<catalogVars, threads, overlapped>>

\* module import: RESERVATIONS = {}; _next_id = 1; then the file is loaded
\* into them
Restart ==
  LET loaded == _load_reservations(file)
  IN  /\ RESERVATIONS' = loaded.reservations
      /\ next_id' = loaded.next_id
      /\ last' = Call("restart", <<>>, Outcome(TRUE, "Loaded", NoStr), 0, NoRows, FALSE)
      /\ UNCHANGED <<file, now, issued>>
      /\ UNCHANGED <<catalogVars, threads, overlapped>>

\* ------------------------------------------------------------------------
\* Specification: one process, calls run to completion one at a time, every
\* write of the file succeeds
\* ------------------------------------------------------------------------

Init ==
  /\ file = FileAbsent
  /\ RESERVATIONS = _load_reservations(file).reservations
  /\ next_id = _load_reservations(file).next_id
  /\ now = Instant0
  /\ last = Call("start", <<>>, Outcome(TRUE, "Loaded", NoStr), 0, NoRows, FALSE)
  /\ issued = <<>>
  /\ CLASSROOMS = {}
  /\ classroom_next_id = 1
  /\ threads = [t \in Threads |-> Idle]
  /\ overlapped = FALSE

Create == \E r \in Requests : create_reservation(r[1], r[2], r[3], r[4], r[5])

Cancel == \E k \in Ids, u \in Users : cancel_reservation(k, u)

Delete == \E k \in Ids : delete_reservation(k)

ListMy == \E u \in Users : list_my_reservations(u)

ListClassroom ==
  \E c \in Classrooms, d \in {NoDateArg, DateArg(DatePadded), DateArg(DateUnpadded)} :
    list_classroom_reservations(c, d)

Next ==
  \/ Create
  \/ Cancel
  \/ Delete
  \/ ListMy
  \/ ListClassroom
  \/ Tick
  \/ Restart

Spec == Init /\ [][Next]_vars

\* ------------------------------------------------------------------------
\* Fallible writes: _save_reservations swallows the IOError of open() and of
\* the write
\* ------------------------------------------------------------------------

\* bound of SpecFail: no create_reservation once _next_id has passed it
MaxIdFail == 2

\* what a call of _save_reservations does to the file: it is rewritten; or
\* open(.., "w") raises and the file stays as it was; or open truncated the
\* file and the write raised, which leaves a file that is no JSON document
WriteOutcomes == {"written", "open_failed", "write_failed"}

FileTruncated == [exists |-> TRUE, json |-> FALSE, reservations |-> {}, next_id |-> 0]

save_attempt(f, store, n, w) ==
  CASE w = "written" -> _save_reservations(store, n)
    [] w = "open_failed" -> f
    [] w = "write_failed" -> FileTruncated

\* a failed write undone in memory and reported to the caller
create_reservation_io_rollback(user_id, classroom_id, reservation_date, start_time_str, end_time_str, w) ==
  LET out == create_checks(RESERVATIONS, now, classroom_id, reservation_date,
                           start_time_str, end_time_str)
      t == take_id(next_id)
      args == <<user_id, classroom_id, reservation_date, start_time_str, end_time_str>>
  IN  /\ next_id <= MaxIdFail
      /\ IF out.ok /\ w = "written"
         THEN /\ RESERVATIONS' = Insert(RESERVATIONS, t.reservation_id, user_id,
                                        classroom_id, reservation_date,
                                        start_time_str, end_time_str)
              /\ next_id' = t.next_id
              /\ file' = save_attempt(file, RESERVATIONS', next_id', w)
              /\ issued' = Append(issued, t.reservation_id)
              /\ last' = Call("create", args, out, t.reservation_id, NoRows, TRUE)
         ELSE /\ UNCHANGED <<RESERVATIONS, next_id, issued>>
              /\ file' = IF out.ok THEN save_attempt(file, RESERVATIONS, next_id, w)
                         ELSE file
              /\ last' = Call("create", args,
                              IF out.ok THEN Outcome(FALSE, "NotSaved", NoStr) ELSE out,
                              0, NoRows, out.ok)
      /\ UNCHANGED now
      /\ UNCHANGED <<catalogVars, threads, overlapped>>

\* create_reservation with the outcome w of its write
create_reservation_io(user_id, classroom_id, reservation_date, start_time_str, end_time_str, w) ==
  LET out == create_checks(RESERVATIONS, now, classroom_id, reservation_date,
                           start_time_str, end_time_str)
      t == take_id(next_id)
      args == <<user_id, classroom_id, reservation_date, start_time_str, end_time_str>>
  IN  /\ next_id <= MaxIdFail
      /\ IF out.ok
         THEN /\ RESERVATIONS' = Insert(RESERVATIONS, t.reservation_id, user_id,
                                        classroom_id, reservation_date,
                                        start_time_str, end_time_str)
              /\ next_id' = t.next_id
              /\ file' = save_attempt(file, RESERVATIONS', next_id', w)
              /\ issued' = Append(issued, t.reservation_id)
              /\ last' = Call("create", args, out, t.reservation_id, NoRows, TRUE)
         ELSE /\ UNCHANGED <<RESERVATIONS, next_id, file, issued>>
              /\ last' = Call("create", args, out, 0, NoRows, FALSE)
      /\ UNCHANGED now
      /\ UNCHANGED <<catalogVars, threads, overlapped>>

\* cancel_reservation with the outcome w of its write
cancel_reservation_io(reservation_id, user_id, w) ==
  LET out == cancel_checks(RESERVATIONS, reservation_id, user_id)
  IN  /\ IF out.ok
         THEN /\ RESERVATIONS' = Remove(RESERVATIONS, reservation_id)
              /\ file' = save_attempt(file, RESERVATIONS', next_id, w)
         ELSE UNCHANGED <<RESERVATIONS, file>>
      /\ last' = Call("cancel", <<reservation_id, user_id>>, out, reservation_id,
                      NoRows, out.ok)
      /\ UNCHANGED <<next_id, now, issued>>
      /\ UNCHANGED <<catalogVars, threads, overlapped>>

\* delete_reservation with the outcome w of its write
delete_reservation_io(reservation_id, w) ==
  /\ IF reservation_id \in DOMAIN RESERVATIONS
     THEN /\ RESERVATIONS' = Remove(RESERVATIONS, reservation_id)
          /\ file' = save_attempt(file, RESERVATIONS', next_id, w)
          /\ last' = Call("delete", <<reservation_id>>, Outcome(TRUE, "Deleted", NoStr),
                          reservation_id, NoRows, TRUE)
     ELSE /\ UNCHANGED <<RESERVATIONS, file>>
          /\ last' = Call("delete", <<reservation_id>>, Outcome(FALSE, "Absent", NoStr),
                          reservation_id, NoRows, FALSE)
  /\ UNCHANGED <<next_id, now, issued>>
  /\ UNCHANGED <<catalogVars, threads, overlapped>>

CreateIO ==
  \E r \in Requests, w \in WriteOutcomes :
    create_reservation_io(r[1], r[2], r[3], r[4], r[5], w)

CancelIO ==
  \E k \in 1..(MaxIdFail + 1), u \in Users, w \in WriteOutcomes :
    cancel_reservation_io(k, u, w)

DeleteIO ==
  \E k \in 1..(MaxIdFail + 1), w \in WriteOutcomes : delete_reservation_io(k, w)

NextFail ==
  \/ CreateIO
  \/ CancelIO
  \/ DeleteIO
  \/ ListMy
  \/ ListClassroom
  \/ Tick

\* one process, calls one at a time, writes of the file may fail
SpecFail == Init /\ [][NextFail]_vars

\* ------------------------------------------------------------------------
\* create_reservation called from two threads. The function takes no lock:
\* between its scan, its read of _next_id, the two halves of _next_id += 1,
\* its insert and its save another thread may run. (main.py's handlers are
\* coroutines without an await, so the web application itself calls the store
\* from one thread; this is the store under any threaded caller.)
\* ------------------------------------------------------------------------

\* bound of SpecRace: no create_reservation starts once _next_id has passed it
MaxIdRace == 2

RaceRequests ==
  { <<"u1", 1, DatePadded, T_9_00, T_10_00>>,
    <<"u2", 1, DatePadded, T_09_00, T_10_00>>,
    <<"u1", 1, DatePadded, T_10_00, T_11_00>>,
    <<"u1", 1, DatePadded, T_9h, T_10_00>> }

\* lines 95-120: parse, past-time check, shape check and the scan of the
\* store; a rejection returns at once
create_scan(t, user_id, classroom_id, reservation_date, start_time_str, end_time_str) ==
  LET out == create_checks(RESERVATIONS, now, classroom_id, reservation_date,
                           start_time_str, end_time_str)
      args == <<user_id, classroom_id, reservation_date, start_time_str, end_time_str>>
  IN  /\ threads[t].pc = "idle"
      /\ next_id <= MaxIdRace
      /\ IF out.ok
         THEN /\ threads' = [threads EXCEPT ![t] = [Idle EXCEPT !.pc = "scanned",
                                                                !.args = args]]
              /\ UNCHANGED last
         ELSE /\ UNCHANGED threads
              /\ last' = Call("create", args, out, 0, NoRows, FALSE)
      /\ UNCHANGED <<RESERVATIONS, next_id, file, now, issued>>
      /\ overlapped' = (overlapped \/ \E u \in Threads \ {t} : threads[u].pc # "idle")
      /\ UNCHANGED catalogVars

\* line 123: reservation_id = _next_id
create_read_id(t) ==
  /\ threads[t].pc = "scanned"
  /\ threads' = [threads EXCEPT ![t].pc = "id_read", ![t].rid = next_id]
  /\ UNCHANGED <<RESERVATIONS, next_id, file, now, last, issued>>
  /\ UNCHANGED <<catalogVars, overlapped>>

\* line 124, first half: _next_id is loaded
create_load_counter(t) ==
  /\ threads[t].pc = "id_read"
  /\ threads' = [threads EXCEPT ![t].pc = "loaded", ![t].counter = next_id]
  /\ UNCHANGED <<RESERVATIONS, next_id, file, now, last, issued>>
  /\ UNCHANGED <<catalogVars, overlapped>>

\* the loaded value stored back without the increment
create_store_counter_stale(t) ==
  /\ threads[t].pc = "loaded"
  /\ next_id' = threads[t].counter
  /\ threads' = [threads EXCEPT ![t].pc = "counted"]
  /\ UNCHANGED <<RESERVATIONS, file, now, last, issued>>
  /\ UNCHANGED <<catalogVars, overlapped>>

\* line 124, second half: the loaded value plus one is stored into _next_id
create_store_counter(t) ==
  /\ threads[t].pc = "loaded"
  /\ next_id' = threads[t].counter + 1
  /\ threads' = [threads EXCEPT ![t].pc = "counted"]
  /\ UNCHANGED <<RESERVATIONS, file, now, last, issued>>
  /\ UNCHANGED <<catalogVars, overlapped>>

\* lines 126-132: RESERVATIONS[reservation_id] = {...}
create_insert(t) ==
  LET a == threads[t].args
  IN  /\ threads[t].pc = "counted"
      /\ RESERVATIONS' = Insert(RESERVATIONS, threads[t].rid, a[1], a[2], a[3], a[4], a[5])
      /\ threads' = [threads EXCEPT ![t].pc = "inserted"]
      /\ UNCHANGED <<next_id, file, now, last, issued>>
      /\ UNCHANGED <<catalogVars, overlapped>>

\* lines 133-135: _save_reservations() and the return
create_save(t) ==
  /\ threads[t].pc = "inserted"
  /\ file' = _save_reservations(RESERVATIONS, next_id)
  /\ issued' = Append(issued, threads[t].rid)
  /\ last' = Call("create", threads[t].args, Outcome(TRUE, "Created", NoStr),
                  threads[t].rid, NoRows, TRUE)
  /\ threads' = [threads EXCEPT ![t] = Idle]
  /\ UNCHANGED <<RESERVATIONS, next_id, now>>
  /\ UNCHANGED <<catalogVars, overlapped>>

CreateScan ==
  \E t \in Threads, r \in RaceRequests : create_scan(t, r[1], r[2], r[3], r[4], r[5])

CreateReadId == \E t \in Threads : create_read_id(t)

CreateLoadCounter == \E t \in Threads : create_load_counter(t)

CreateStoreCounter == \E t \in Threads : create_store_counter(t)

CreateInsert == \E t \in Threads : create_insert(t)

CreateSave == \E t \in Threads : create_save(t)

NextRace ==
  \/ CreateScan
  \/ CreateReadId
  \/ CreateLoadCounter
  \/ CreateStoreCounter
  \/ CreateInsert
  \/ CreateSave

\* two threads inside create_reservation, every interleaving of their steps
SpecRace == Init /\ [][NextRace]_vars

\* ------------------------------------------------------------------------
\* Booking one slot again and again: every create asks for classroom 1 on
\* 1 January 2099 from 9 to 10, in the spellings the parsers accept
\* ------------------------------------------------------------------------

RebookRequests ==
  { <<"u1", 1, DatePadded, T_9_00, T_10_00>>,
    <<"u2", 1, DatePadded, T_09_00, T_10_00>>,
    <<"u2", 1, DateUnpadded, T_9_00, T_10_00>> }

CreateSameSlot ==
  \E r \in RebookRequests : create_reservation(r[1], r[2], r[3], r[4], r[5])

NextRebook ==
  \/ CreateSameSlot
  \/ Cancel
  \/ Delete
  \/ Tick
  \/ Restart

SpecRebook == Init /\ [][NextRebook]_vars

\* ------------------------------------------------------------------------
\* The request layer: POST /reservations/create in front of the store, and
\* the classroom catalog it consults
\* ------------------------------------------------------------------------

\* bound of SpecRoute: no create_classroom once classroom_db._next_id has
\* passed it
MaxClassroomId == 2

\* a request without a logged-in session
NoSession == ""

\* classroom_db.create_classroom: the id is the counter, which moves on by one
create_classroom ==
  /\ classroom_next_id <= MaxClassroomId
  /\ CLASSROOMS' = CLASSROOMS \cup {classroom_next_id}
  /\ classroom_next_id' = classroom_next_id + 1
  /\ last' = Call("create_classroom", <<>>, Outcome(TRUE, "ClassroomCreated", NoStr),
                  classroom_next_id, NoRows, FALSE)
  /\ UNCHANGED <<RESERVATIONS, next_id, file, now, issued, threads, overlapped>>

\* classroom_db.delete_classroom: reservations of the classroom stay
delete_classroom(classroom_id) ==
  /\ CLASSROOMS' = CLASSROOMS \ {classroom_id}
  /\ last' = Call("delete_classroom", <<classroom_id>>,
                  IF classroom_id \in CLASSROOMS
                  THEN Outcome(TRUE, "ClassroomDeleted", NoStr)
                  ELSE Outcome(FALSE, "Absent", NoStr),
                  classroom_id, NoRows, FALSE)
  /\ UNCHANGED <<RESERVATIONS, next_id, file, now, issued, classroom_next_id, threads, overlapped>>

\* the handler without the look into the catalog
create_reservation_post_unchecked(session_user, classroom_id, date, start_time, end_time) ==
  LET args == <<session_user, classroom_id, date, start_time, end_time>>
  IN  IF session_user = NoSession
      THEN /\ last' = Call("create_post", args, Outcome(FALSE, "Unauthenticated", NoStr),
                           0, NoRows, FALSE)
           /\ UNCHANGED <<RESERVATIONS, next_id, file, now, issued, catalogVars, threads, overlapped>>
      ELSE create_reservation(session_user, classroom_id, date, start_time, end_time)

\* create_reservation_post: require_auth, then the catalog check, then the
\* store's create_reservation
create_reservation_post(session_user, classroom_id, date, start_time, end_time) ==
  LET args == <<session_user, classroom_id, date, start_time, end_time>>
  IN  IF session_user = NoSession
      THEN /\ last' = Call("create_post", args, Outcome(FALSE, "Unauthenticated", NoStr),
                           0, NoRows, FALSE)
           /\ UNCHANGED <<RESERVATIONS, next_id, file, now, issued, catalogVars, threads, overlapped>>
      ELSE IF classroom_id \notin CLASSROOMS
      THEN /\ last' = Call("create_post", args, Outcome(FALSE, "NoSuchClassroom", NoStr),
                           0, NoRows, FALSE)
           /\ UNCHANGED <<RESERVATIONS, next_id, file, now, issued, catalogVars, threads, overlapped>>
      ELSE create_reservation(session_user, classroom_id, date, start_time, end_time)

RouteRequests ==
  { <<"u1", 1, DatePadded, T_9_00, T_10_00>>,
    <<"u2", 2, DatePadded, T_9_00, T_10_00>>,
    <<"u1", 2, DatePadded, T_10_00, T_11_00>>,
    <<"u1", 1, DatePadded, T_9h, T_10_00>>,
    <<NoSession, 1, DatePadded, T_9_00, T_10_00>> }

CreateClassroom == create_classroom

DeleteClassroom == \E c \in 1..(MaxClassroomId + 1) : delete_classroom(c)

CreatePost ==
  \E r \in RouteRequests : create_reservation_post(r[1], r[2], r[3], r[4], r[5])

NextRoute ==
  \/ CreateClassroom
  \/ DeleteClassroom
  \/ CreatePost

\* reservations are made through the route only; classrooms come and go
SpecRoute == Init /\ [][NextRoute]_vars

\* ------------------------------------------------------------------------
\* The two predicates on datetime.time values, applied to drawn inputs
\* ------------------------------------------------------------------------

PureHours == {0, 9, 10, 11, 23}
PureMinutes == {0, 30}

\* datetime.time values
Times == [ok : {TRUE}, hour : PureHours, minute : PureMinutes]

InitPure ==
  /\ file = FileAbsent
  /\ RESERVATIONS = _load_reservations(file).reservations
  /\ next_id = _load_reservations(file).next_id
  /\ now = Instant0
  /\ \E s1 \in Times, e1 \in Times, s2 \in Times, e2 \in Times :
       last = Call("start", <<s1, e1, s2, e2>>, Outcome(TRUE, "Loaded", NoStr),
                   0, NoRows, FALSE)
  /\ issued = <<>>
  /\ CLASSROOMS = {}
  /\ classroom_next_id = 1
  /\ threads = [t \in Threads |-> Idle]
  /\ overlapped = FALSE

ApplyValidSlot ==
  /\ last.op = "start"
  /\ last' = Call("_is_valid_time_slot", last.args,
                  Outcome(_is_valid_time_slot(last.args[1], last.args[2]),
                          "Applied", NoStr),
                  0, NoRows, FALSE)
  /\ UNCHANGED <<RESERVATIONS, next_id, file, now, issued>>
  /\ UNCHANGED <<catalogVars, threads, overlapped>>

ApplyOverlap ==
  /\ last.op = "start"
  /\ last' = Call("_is_time_overlap", last.args,
                  Outcome(_is_time_overlap(last.args[1], last.args[2],
                                           last.args[3], last.args[4]),
                          "Applied", NoStr),
                  0, NoRows, FALSE)
  /\ UNCHANGED <<RESERVATIONS, next_id, file, now, issued>>
  /\ UNCHANGED <<catalogVars, threads, overlapped>>

NextPure ==
  \/ ApplyValidSlot
  \/ ApplyOverlap

SpecPure == InitPure /\ [][NextPure]_vars

\* ------------------------------------------------------------------------
\* Restarts of a process whose writes may fail: the module is imported again
\* and loads whatever the file holds
\* ------------------------------------------------------------------------

\* bound of SpecCrash: no create_reservation once this many ids were given out
MaxIssued == 3

CrashRequests ==
  { <<"u1", 1, DatePadded, T_9_00, T_10_00>>,
    <<"u2", 1, DatePadded, T_10_00, T_11_00>>,
    <<"u2", 2, DatePadded, T_9_00, T_10_00>>,
    <<"u1", 1, DatePadded, T_9h, T_10_00>> }

CreateCrash ==
  /\ Len(issued) < MaxIssued
  /\ \E r \in CrashRequests, w \in WriteOutcomes :
       create_reservation_io(r[1], r[2], r[3], r[4], r[5], w)

NextCrash ==
  \/ CreateCrash
  \/ CancelIO
  \/ DeleteIO
  \/ Restart

\* one process, calls one at a time, writes may fail, the process may restart
SpecCrash == Init /\ [][NextCrash]_vars

\* ------------------------------------------------------------------------
\* Properties
\* ------------------------------------------------------------------------

\* the arguments of the create_reservation call `last` records
ArgClassroom == last.args[2]
ArgDate == last.args[3]
ArgStart == last.args[4]
ArgEnd == last.args[5]

ArgsParse ==
  _parse_date(ArgDate).ok /\ _parse_time(ArgStart).ok /\ _parse_time(ArgEnd).ok

ArgsPast == _is_past_datetime(_parse_date(ArgDate), _parse_time(ArgStart), now)

ArgsShapeValid == _is_valid_time_slot(_parse_time(ArgStart), _parse_time(ArgEnd))

\* the minute of the day at which a stored reservation starts
StartMinute(rec) == time_to_minutes(_parse_time(rec.start_time))

\* two one-hour intervals [start, start + 60) share a point in time
SharePoint(r1, r2) ==
  StartMinute(r1) < StartMinute(r2) + 60 /\ StartMinute(r2) < StartMinute(r1) + 60

\* C1: no two distinct live reservations of the same classroom and the same
\* date have one-hour intervals that share a point in time.
C1_NoDoubleBooking ==
  \A a, b \in DOMAIN RESERVATIONS :
    (/\ a # b
     /\ RESERVATIONS[a].classroom_id = RESERVATIONS[b].classroom_id
     /\ RESERVATIONS[a].date = RESERVATIONS[b].date)
      => ~SharePoint(RESERVATIONS[a], RESERVATIONS[b])

\* C2: while a reservation of a classroom, date, start and end is live, a
\* create_reservation with the same classroom, date, start and end whose
\* start is not in the past is rejected with "slot already booked".
C2_RepeatRejected ==
  (/\ last.op = "create"
   /\ ArgsParse
   /\ ~ArgsPast
   /\ \E k \in DOMAIN RESERVATIONS :
        /\ k # last.rid
        /\ RESERVATIONS[k].classroom_id = ArgClassroom
        /\ RESERVATIONS[k].date = ArgDate
        /\ RESERVATIONS[k].start_time = ArgStart
        /\ RESERVATIONS[k].end_time = ArgEnd)
    => (~last.ok /\ last.msg = "SlotConflict")

\* C3: the k-th successful create_reservation is given id k: the first id is
\* 1, every success moves the counter by one, and no id is given twice, also
\* not the id of a reservation that was cancelled or deleted.
C3_KthCreateGetsIdK ==
  /\ \A k \in 1..Len(issued) : issued[k] = k
  /\ next_id = Len(issued) + 1
  /\ (last.op = "create" /\ last.ok) => last.rid = Len(issued)

\* a create succeeded after an earlier reservation was removed
C3_Witness ==
  /\ last.op = "create" /\ last.ok /\ last.rid = 3
  /\ 1 \notin DOMAIN RESERVATIONS

\* C4: create_reservation returns the rejection of the first failing check in
\* the order parse date, parse start, parse end, past time, slot shape,
\* conflict; a start in the past is reported as such whatever the slot's
\* shape and whether or not the slot is booked.
C4_CheckOrder ==
  last.op = "create" =>
    /\ ~_parse_date(ArgDate).ok
         => (last.msg = "InvalidDateFormat" /\ last.raw = ArgDate)
    /\ (_parse_date(ArgDate).ok /\ ~_parse_time(ArgStart).ok)
         => (last.msg = "InvalidTimeFormat" /\ last.raw = ArgStart)
    /\ (_parse_date(ArgDate).ok /\ _parse_time(ArgStart).ok /\ ~_parse_time(ArgEnd).ok)
         => (last.msg = "InvalidTimeFormat" /\ last.raw = ArgEnd)
    /\ (ArgsParse /\ ArgsPast) => last.msg = "PastTime"
    /\ (ArgsParse /\ ~ArgsPast /\ ~ArgsShapeValid) => last.msg = "InvalidSlotShape"
    /\ (ArgsParse /\ ~ArgsPast /\ ArgsShapeValid)
         => last.msg \in {"SlotConflict", "Created"}
    /\ last.ok <=> last.msg = "Created"

\* a start in the past, rejected as such, with a slot of the wrong shape
C4_Witness ==
  /\ last.op = "create" /\ last.msg = "PastTime"
  /\ ArgsParse /\ ArgsPast /\ ~ArgsShapeValid

\* C5: cancel_reservation(id, user) answers "not found" for an id that is not
\* in the store, "not owner" for a record of another user, and in both cases
\* leaves the store, the counter and the file as they were; otherwise it
\* removes the record, and get_reservation(id) then finds nothing.
C5_CancelContract ==
  [][last'.op = "cancel" =>
       LET k == last'.args[1]
           u == last'.args[2]
       IN  /\ k \notin DOMAIN RESERVATIONS
                => (/\ ~last'.ok /\ last'.msg = "NotFound"
                    /\ UNCHANGED <<RESERVATIONS, next_id, file>>)
           /\ (k \in DOMAIN RESERVATIONS /\ RESERVATIONS[k].user_id # u)
                => (/\ ~last'.ok /\ last'.msg = "NotOwner"
                    /\ UNCHANGED <<RESERVATIONS, next_id, file>>)
           /\ (k \in DOMAIN RESERVATIONS /\ RESERVATIONS[k].user_id = u)
                => (/\ last'.ok
                    /\ DOMAIN RESERVATIONS' = DOMAIN RESERVATIONS \ {k}
                    /\ ~get_reservation(RESERVATIONS', k).found)]_vars

\* a cancel by another user was refused and the record is still there
C5_Witness ==
  /\ last.op = "cancel" /\ last.msg = "NotOwner"
  /\ get_reservation(RESERVATIONS, last.args[1]).found

\* C6: a reservation leaves the store only in a cancel_reservation called
\* with its own user_id or in a delete_reservation; no other step removes it.
C6_RemovedOnlyByOwnerOrAdmin ==
  [][\A k \in DOMAIN RESERVATIONS :
       k \notin DOMAIN RESERVATIONS'
         => \/ /\ last'.op = "cancel" /\ last'.ok
               /\ last'.args = <<k, RESERVATIONS[k].user_id>>
            \/ /\ last'.op = "delete"
               /\ last'.args = <<k>>]_vars

\* the owner cancelled one reservation and another one is still live
C6_Witness ==
  /\ last.op = "cancel" /\ last.ok
  /\ last.rid \notin DOMAIN RESERVATIONS
  /\ DOMAIN RESERVATIONS # {}

\* C7: as long as a reservation is in the store, the record under its id
\* stays the same in every step: create, cancel, delete, restart and the
\* queries, also the one whose rows the handler annotates.
C7_NeverMutated ==
  [][\A k \in DOMAIN RESERVATIONS \cap DOMAIN RESERVATIONS' :
       RESERVATIONS'[k] = RESERVATIONS[k]]_vars

\* the handler returned annotated rows of records that are in the store
C7_Witness ==
  /\ last.op = "list_my" /\ Len(last.rows) >= 2
  /\ \A i \in 1..Len(last.rows) :
       /\ last.rows[i].fields.id \in DOMAIN RESERVATIONS
       /\ "classroom_name" \in DOMAIN last.rows[i].fields
       /\ "classroom_name" \notin DOMAIN RESERVATIONS[last.rows[i].fields.id]

\* the (calendar date, minute of the day) a row starts at
StartKey(f) ==
  <<_parse_date(f.date).year, _parse_date(f.date).month, _parse_date(f.date).day,
    time_to_minutes(_parse_time(f.start_time))>>

\* C8: get_classroom_reservations returns its rows in ascending order of
\* (date, start time of day).
C8_SortedByStartTime ==
  last.op = "list_classroom" =>
    \A i, j \in 1..Len(last.rows) :
      i < j => ~LexLess(StartKey(last.rows[j].fields), StartKey(last.rows[i].fields))

\* C9: writing a reachable store with _save_reservations and loading the
\* document with _load_reservations gives back the same records under the
\* same ids and the same counter.
C9_RoundTrip ==
  LET loaded == _load_reservations(_save_reservations(RESERVATIONS, next_id))
  IN  /\ loaded.reservations = RESERVATIONS
      /\ loaded.next_id = next_id

\* the process restarted from a file that holds records with a gap in the ids
C9_Witness ==
  /\ last.op = "restart" /\ file.exists
  /\ 1 \notin DOMAIN RESERVATIONS /\ 2 \in DOMAIN RESERVATIONS

\* the document holds exactly the store's records under str(id), and the counter
DocMatches ==
  /\ file.exists
  /\ file.next_id = next_id
  /\ file.reservations = {<<StrOf(k), RESERVATIONS[k]>> : k \in DOMAIN RESERVATIONS}

\* C10: after a create, cancel or delete that succeeded the file holds the
\* store and the counter; one that was rejected or found nothing wrote nothing.
C10_FileMirrorsStore ==
  last.op \in {"create", "cancel", "delete"} =>
    /\ last.ok => (last.saved /\ DocMatches)
    /\ ~last.ok => ~last.saved

\* an admin delete was written and the file still holds a record
C10_Witness ==
  /\ last.op = "delete" /\ last.ok /\ last.saved
  /\ file.reservations # {}

\* the record a create_reservation with the arguments of `last` inserts
ArgsRecord ==
  [user_id |-> last.args[1], classroom_id |-> ArgClassroom, date |-> ArgDate,
   start_time |-> ArgStart, end_time |-> ArgEnd]

\* the ids of the rows a query returned
RowIds == {last.rows[i].fields.id : i \in 1..Len(last.rows)}

\* C11: a create, cancel or delete that reaches the write reports success and
\* its change stays in memory whatever becomes of the write; later queries
\* return the unsaved records and later conflict scans count them.
C11_FailedWriteKeepsMutation ==
  /\ (last.op \in {"create", "cancel", "delete"} /\ last.saved) => last.ok
  /\ (last.op = "create" /\ last.saved)
       => (last.rid \in DOMAIN RESERVATIONS /\ RESERVATIONS[last.rid] = ArgsRecord)
  /\ (last.op \in {"cancel", "delete"} /\ last.saved)
       => last.rid \notin DOMAIN RESERVATIONS
  /\ (last.op = "list_classroom" /\ ~last.args[2].given)
       => RowIds = {k \in DOMAIN RESERVATIONS :
                      RESERVATIONS[k].classroom_id = last.args[1]}
  /\ (last.op = "create" /\ last.ok)
       => \A k \in DOMAIN RESERVATIONS \ {last.rid} :
            ~(/\ RESERVATIONS[k].classroom_id = ArgClassroom
              /\ RESERVATIONS[k].date = ArgDate
              /\ _is_time_overlap(_parse_time(ArgStart), _parse_time(ArgEnd),
                                  _parse_time(RESERVATIONS[k].start_time),
                                  _parse_time(RESERVATIONS[k].end_time)))

\* no write ever reached the file, and a create was rejected because of a
\* reservation that exists in memory only
C11_Witness ==
  /\ last.op = "create" /\ last.msg = "SlotConflict"
  /\ ~file.exists
  /\ DOMAIN RESERVATIONS # {}

TimeOf(h, m) == [ok |-> TRUE, hour |-> h, minute |-> m]

\* C12: _is_valid_time_slot(start, end) is true exactly when both minutes are
\* 0 and end.hour = (start.hour + 1) mod 24: true for H:00 -> (H+1):00 with
\* H in 0..22, false with a non-zero minute, true for 23:00 -> 00:00.
C12_ValidSlotExact ==
  last.op = "_is_valid_time_slot" =>
    LET s == last.args[1]
        e == last.args[2]
    IN  /\ last.ok <=> (s.minute = 0 /\ e.minute = 0 /\ e.hour = (s.hour + 1) % 24)
        /\ (s.hour <= 22 /\ s.minute = 0 /\ e = TimeOf(s.hour + 1, 0)) => last.ok
        /\ (s.minute # 0 \/ e.minute # 0) => ~last.ok
        /\ (s = TimeOf(23, 0) /\ e = TimeOf(0, 0)) => last.ok

\* the wrap case was applied and came out true
C12_Witness ==
  /\ last.op = "_is_valid_time_slot"
  /\ last.args[1] = TimeOf(23, 0) /\ last.args[2] = TimeOf(0, 0)
  /\ last.ok

MinutesOfDay == 0..1439

\* minute m lies in the half-open interval from s to e
InInterval(m, s, e) == time_to_minutes(s) <= m /\ m < time_to_minutes(e)

\* C13: _is_time_overlap(s1, e1, s2, e2) equals minutes(s1) < minutes(e2) and
\* minutes(s2) < minutes(e1) for all times; of two intervals with start before
\* end it is true exactly when they share a minute, so intervals that only
\* touch do not overlap.
C13_OverlapIsMinuteComparison ==
  last.op = "_is_time_overlap" =>
    LET s1 == last.args[1]
        e1 == last.args[2]
        s2 == last.args[3]
        e2 == last.args[4]
        m(t) == 60 * t.hour + t.minute
    IN  /\ last.ok <=> (m(s1) < m(e2) /\ m(s2) < m(e1))
        /\ (m(s1) < m(e1) /\ m(s2) < m(e2)) =>
             (last.ok <=> \E x \in MinutesOfDay :
                            InInterval(x, s1, e1) /\ InInterval(x, s2, e2))
        /\ (m(s1) < m(e1) /\ m(s2) < m(e2) /\ (e1 = s2 \/ e2 = s1)) => ~last.ok

\* 09:00-11:00 against 10:30-23:00 overlaps; two-hour and half-hour operands
C13_Witness ==
  /\ last.op = "_is_time_overlap"
  /\ last.args = <<TimeOf(9, 0), TimeOf(11, 0), TimeOf(10, 30), TimeOf(23, 0)>>
  /\ last.ok

\* 09:00-10:00 against 10:00-11:00 touches and was found not to overlap
C13_WitnessTouching ==
  /\ last.op = "_is_time_overlap"
  /\ last.args = <<TimeOf(9, 0), TimeOf(10, 0), TimeOf(10, 0), TimeOf(11, 0)>>
  /\ ~last.ok

\* two live reservations of one classroom and date string with the same start
DuplicateSlot ==
  \E j \in DOMAIN RESERVATIONS, k \in DOMAIN RESERVATIONS :
    /\ j # k
    /\ RESERVATIONS[j].classroom_id = RESERVATIONS[k].classroom_id
    /\ RESERVATIONS[j].date = RESERVATIONS[k].date
    /\ _parse_time(RESERVATIONS[j].start_time) = _parse_time(RESERVATIONS[k].start_time)

\* C14: the scan and the insert of create_reservation are not atomic, so two
\* interleaved creates of one slot both succeed; when every create runs to
\* completion before the next starts, no two live reservations hold the same
\* classroom, date and slot. (This states the second half, under Spec.)
C14_SequentialNoDuplicateSlot == ~DuplicateSlot

\* the first half, under SpecRace: two creates of the 09:00 slot both returned
\* success and both records are in the store
C14_RaceDuplicate ==
  /\ DuplicateSlot
  /\ \A k \in DOMAIN RESERVATIONS : _parse_time(RESERVATIONS[k].start_time).hour = 9
  /\ \A t \in Threads : threads[t].pc = "idle"

\* C15: every live reservation has start and end times that parse, with
\* minute 0, and an end hour equal to (start hour + 1) mod 24.
C15_StoredSlotsAreOneHour ==
  \A k \in DOMAIN RESERVATIONS :
    LET s == _parse_time(RESERVATIONS[k].start_time)
        e == _parse_time(RESERVATIONS[k].end_time)
    IN  /\ s.ok /\ e.ok
        /\ s.minute = 0 /\ e.minute = 0
        /\ e.hour = (s.hour + 1) % 24

\* the store holds a 09:00 slot and the slot that wraps past midnight
C15_Witness ==
  /\ \E k \in DOMAIN RESERVATIONS :
       /\ _parse_time(RESERVATIONS[k].start_time).hour = 23
       /\ _parse_time(RESERVATIONS[k].end_time).hour = 0
  /\ \E k \in DOMAIN RESERVATIONS :
       /\ _parse_time(RESERVATIONS[k].start_time).hour = 9
       /\ _parse_time(RESERVATIONS[k].end_time).hour = 10
  /\ last.op = "restart"

\* C16: a rejected create_reservation leaves the reservation map, the counter
\* and the file as they were, and no id is consumed.
C16_RejectedCreateChangesNothing ==
  [][(last'.op = "create" /\ ~last'.ok)
       => (RESERVATIONS' = RESERVATIONS /\ next_id' = next_id /\ file' = file
           /\ issued' = issued)]_vars

\* a create was rejected for a conflict after two ids had been given out, and
\* the third id is still to come
C16_Witness ==
  /\ last.op = "create" /\ last.msg = "SlotConflict"
  /\ next_id = 3
  /\ Len(issued) = 2

\* the live reservation k takes place in the classroom, on the calendar day
\* and during the hour the arguments of `last` ask for
TakesArgsSlot(k) ==
  /\ RESERVATIONS[k].classroom_id = ArgClassroom
  /\ _parse_date(RESERVATIONS[k].date) = _parse_date(ArgDate)
  /\ SharePoint(RESERVATIONS[k], ArgsRecord)

\* C17: once a reservation has been cancelled or deleted, a create for its
\* classroom, date and slot that is not in the past and meets no other live
\* reservation succeeds, with an id greater than every id given out before.
\* (Under SpecRebook every reservation ever made has that classroom, day and
\* slot.)
C17_RebookAfterRemoval ==
  (/\ last.op = "create"
   /\ ArgsParse /\ ~ArgsPast /\ ArgsShapeValid
   /\ \A k \in DOMAIN RESERVATIONS \ {last.rid} : ~TakesArgsSlot(k))
    => /\ last.ok
       /\ last.rid \in DOMAIN RESERVATIONS
       /\ \A i \in 1..(Len(issued) - 1) : issued[i] < last.rid

\* the slot is booked under id 3 and nothing else is live: the holders of
\* ids 1 and 2 were removed before
C17_Witness ==
  /\ last.op = "create" /\ last.ok /\ last.rid = 3
  /\ DOMAIN RESERVATIONS = {3}
  /\ issued = <<1, 2, 3>>

\* C18: delete_reservation(id) returns true and removes the record whenever
\* the id is in the store, whoever owns it; for an absent id it returns false
\* and leaves the store, the counter and the file as they were; it never
\* changes the counter.
C18_DeleteContract ==
  [][last'.op = "delete" =>
       LET k == last'.args[1]
       IN  /\ k \in DOMAIN RESERVATIONS
                => (/\ last'.ok
                    /\ DOMAIN RESERVATIONS' = DOMAIN RESERVATIONS \ {k}
                    /\ \A j \in DOMAIN RESERVATIONS' : RESERVATIONS'[j] = RESERVATIONS[j])
           /\ k \notin DOMAIN RESERVATIONS
                => (/\ ~last'.ok
                    /\ UNCHANGED <<RESERVATIONS, next_id, file>>)
           /\ next_id' = next_id]_vars

\* a record was deleted while a record of each user is still live
C18_Witness ==
  /\ last.op = "delete" /\ last.ok
  /\ last.rid \notin DOMAIN RESERVATIONS
  /\ \A u \in Users : \E k \in DOMAIN RESERVATIONS : RESERVATIONS[k].user_id = u
  /\ next_id = 4

\* the live reservation k has the classroom and the very date string of the
\* arguments of `last`, and times that _is_time_overlap finds overlapping
MatchesArgsDateString(k) ==
  /\ RESERVATIONS[k].classroom_id = ArgClassroom
  /\ RESERVATIONS[k].date = ArgDate
  /\ _is_time_overlap(_parse_time(ArgStart), _parse_time(ArgEnd),
                      _parse_time(RESERVATIONS[k].start_time),
                      _parse_time(RESERVATIONS[k].end_time))

\* C19: conflict detection matches dates by exact string equality: a create
\* that passes the parse, past-time and shape checks is rejected exactly when
\* a live reservation of the classroom carries the same date string and
\* overlapping times; a reservation of the same calendar day written
\* differently is not compared, so the create is accepted even for the
\* identical slot.
C19_DatesMatchedAsStrings ==
  (last.op = "create" /\ ArgsParse /\ ~ArgsPast /\ ArgsShapeValid) =>
    (last.ok <=> \A k \in DOMAIN RESERVATIONS \ {last.rid} : ~MatchesArgsDateString(k))

\* a create was accepted while a reservation of the same classroom, calendar
\* day and hour, with the date written differently, is live
C19_Witness ==
  /\ last.op = "create" /\ last.ok
  /\ \E k \in DOMAIN RESERVATIONS \ {last.rid} :
       /\ RESERVATIONS[k].classroom_id = ArgClassroom
       /\ RESERVATIONS[k].date # ArgDate
       /\ _parse_date(RESERVATIONS[k].date) = _parse_date(ArgDate)
       /\ _parse_time(RESERVATIONS[k].start_time) = _parse_time(ArgStart)
       /\ _parse_time(RESERVATIONS[k].end_time) = _parse_time(ArgEnd)

\* C20: the route calls create_reservation only after finding classroom_id in
\* the catalog: a POST for a classroom that is not there is rejected and
\* leaves the reservation store as it was, so every reservation made through
\* the route names a classroom that was in the catalog when it was made.
C20_RouteChecksCatalog ==
  [][/\ \A k \in DOMAIN RESERVATIONS' \ DOMAIN RESERVATIONS :
          RESERVATIONS'[k].classroom_id \in CLASSROOMS
     /\ (last'.op \in {"create", "create_post"} /\ last'.args[2] \notin CLASSROOMS)
          => (/\ last'.op = "create_post" /\ ~last'.ok
              /\ UNCHANGED <<RESERVATIONS, next_id, file, issued>>)
     /\ last'.op = "create" => last'.args[2] \in CLASSROOMS]_vars

\* a POST for a classroom that has been deleted is turned away while a
\* reservation made when the classroom existed is still in the store
C20_Witness ==
  /\ last.op = "create_post" /\ last.msg = "NoSuchClassroom"
  /\ ArgClassroom \notin CLASSROOMS
  /\ \E k \in DOMAIN RESERVATIONS : RESERVATIONS[k].classroom_id = ArgClassroom

\* C21: across restarts, also when writes fail, no id is given to two
\* reservations: an id handed out before a restart is not handed out again.
C21_NoIdIssuedTwice ==
  \A i, j \in 1..Len(issued) : i # j => issued[i] # issued[j]

\* C22: in every state reached by creates, cancels, deletes and restarts,
\* with writes that may fail, the counter is greater than every id in the
\* store; so the id a create takes is never the id of a live reservation.
C22_CounterAboveStoredIds ==
  /\ [](\A k \in DOMAIN RESERVATIONS : k < next_id)
  /\ [][(last'.op = "create" /\ last'.ok)
          => (/\ last'.rid \notin DOMAIN RESERVATIONS
              /\ \A k \in DOMAIN RESERVATIONS : RESERVATIONS'[k] = RESERVATIONS[k])]_vars

\* a restart has taken the store and the counter back to an older file: a
\* record is live and the counter is below the number of ids given out
C22_Witness ==
  /\ last.op = "restart"
  /\ DOMAIN RESERVATIONS # {}
  /\ next_id <= Len(issued)

\* C23: reading _next_id, incrementing it and inserting are separate steps:
\* two creates of slots that do not conflict, interleaved between the read
\* and the increment, get the same id and the later insert replaces the
\* earlier record, so a create that returned success has no record; as long
\* as no create began while another was under way, every successful create
\* has an id of its own and its record is in the store under it.
C23_SerialCreatesKeepTheirRecords ==
  ~overlapped =>
    /\ \A i, j \in 1..Len(issued) : i # j => issued[i] # issued[j]
    /\ \A i \in 1..Len(issued) : issued[i] \in DOMAIN RESERVATIONS
    /\ (last.op = "create" /\ last.ok)
         => (last.rid \in DOMAIN RESERVATIONS /\ RESERVATIONS[last.rid] = ArgsRecord)
    /\ \A t \in Threads :
         threads[t].pc \in {"id_read", "loaded", "counted"}
           => threads[t].rid \notin DOMAIN RESERVATIONS

\* two creates of the 09:00 and the 10:00 slot both returned success with
\* id 1; the store holds one record, and it is not the one of the create
\* that returned last
C23_Witness ==
  /\ overlapped
  /\ last.op = "create" /\ last.ok
  /\ issued = <<1, 1>>
  /\ DOMAIN RESERVATIONS = {1}
  /\ RESERVATIONS[1] # ArgsRecord
  /\ ~SharePoint(RESERVATIONS[1], ArgsRecord)
  /\ \A t \in Threads : threads[t].pc = "idle"

====
